---- MODULE Spec2Model ----
(***************************************************************************)
(* Model of the Ticket aggregate of service-support                        *)
(* (internal/domain/ticket/ticket.go) with the status and priority value   *)
(* objects of internal/domain/shared.                                      *)
(*                                                                         *)
(* Time is counted in whole hours and one method call reads the clock      *)
(* once.  A method is an operator from the ticket and its arguments to the *)
(* ticket it leaves and the error it returns, so a property can speak of   *)
(* the outcome of every call on every reachable ticket.  Fields no method  *)
(* reads are left out: the identifiers, the ticket number, the guest name  *)
(* and phone, the order and category references, the text of a message,    *)
(* and the creation timestamps carried by history entries, messages and    *)
(* events.                                                                 *)
(***************************************************************************)
EXTENDS Integers, Sequences, FiniteSets, TLC

\* ---------------------------------------------------------------- bounds
\* Largest clock reading (hours) the model explores.
MaxTime == 1
\* Largest number of entries the ticket holds in its three collections
\* together: status history, messages and undrained events.
MaxEntries == 4
\* Largest number of messages among them.
MaxMessages == 1
\* Largest number of tags AddTag grows the tag list to.
MaxTags == 3
\* Largest clock reading of the runs that let an SLA deadline pass.
MaxLateTime == 2
\* Largest number of HTTP requests a run starts.
MaxRequests == 3

\* ---------------------------------------------------------------- inputs
\* Arguments the actions draw from; the properties below evaluate every
\* method on each reachable ticket with the wider *Args sets.
Agents == {"a1"}
AgentArgs == {"a1", "a2"}
NoID == "nil"
Actors == {"a1"}
Reasons == {"r"}
SubjectInputs == {"", "Help"}
CustomerInputs == {NoID}
EmailInputs == {"", "a@b.com"}
PriorityInputs == {"", "low", "high", "urgent"}
PriorityArgs == {"", "low", "normal", "high", "urgent", "bogus"}
CustomerArgs == {NoID, "c1"}
TagNames == {"x", "y"}
TagsInputs == {<<>>}
TagsArgs ==
  {<<>>} \cup {<<a>> : a \in TagNames} \cup {<<a, b>> : a \in TagNames, b \in TagNames}
SLAHoursInputs == {0, 1}
RatingInputs == {0, 3, 6}
RatingArgs == -1..7
SLAHoursArgs == {-1, 0, 1, 30}
CommentInputs == {"ok"}
CommentArgs == {"", "ok", "fine"}
SenderInputs == {"customer", "agent"}
InternalInputs == {FALSE}

\* ------------------------------------------------- shared.TicketStatus
StatusOpen == "open"
StatusPending == "pending"
StatusInProgress == "in_progress"
StatusResolved == "resolved"
StatusClosed == "closed"

AllTicketStatuses ==
  {StatusOpen, StatusPending, StatusInProgress, StatusResolved, StatusClosed}

validTransitions ==
  [s \in AllTicketStatuses |->
     CASE s = StatusOpen -> <<StatusPending, StatusInProgress, StatusResolved>>
       [] s = StatusPending -> <<StatusOpen, StatusInProgress, StatusResolved>>
       [] s = StatusInProgress -> <<StatusPending, StatusResolved>>
       [] s = StatusResolved -> <<StatusClosed, StatusOpen>>
       [] s = StatusClosed -> <<>>]

\* CanTransitionTo with a status that has no allowed targets treated as
\* unrestricted.
CanTransitionTo_EmptyIsAny(s, target) ==
  IF s \notin DOMAIN validTransitions
    THEN FALSE
    ELSE \/ Len(validTransitions[s]) = 0
         \/ \E i \in 1..Len(validTransitions[s]) : validTransitions[s][i] = target

CanTransitionTo(s, target) ==
  IF s \notin DOMAIN validTransitions
    THEN FALSE
    ELSE \E i \in 1..Len(validTransitions[s]) : validTransitions[s][i] = target

\* TransitionTo returning the target with its error.
TransitionTo_TargetOnError(s, target) ==
  IF ~CanTransitionTo(s, target)
    THEN [status |-> target, ok |-> FALSE]
    ELSE [status |-> target, ok |-> TRUE]

\* TransitionTo: the status returned and whether an error came with it.
TransitionTo(s, target) ==
  IF ~CanTransitionTo(s, target)
    THEN [status |-> s, ok |-> FALSE]
    ELSE [status |-> target, ok |-> TRUE]

ValidTransitions(s) ==
  IF s \notin DOMAIN validTransitions THEN <<>> ELSE validTransitions[s]

IsTerminal(s) == Len(ValidTransitions(s)) = 0

IsOpen(s) == s = StatusOpen
IsInProgress(s) == s = StatusInProgress
IsResolved(s) == s = StatusResolved
IsClosed(s) == s = StatusClosed
IsActive(s) == s # StatusResolved /\ s # StatusClosed

\* ----------------------------------------------- shared.TicketPriority
PriorityLow == "low"
PriorityNormal == "normal"
PriorityHigh == "high"
PriorityUrgent == "urgent"

AllTicketPriorities == {PriorityLow, PriorityNormal, PriorityHigh, PriorityUrgent}

SLAHoursLow == 48
SLAHoursNormal == 24
SLAHoursHigh == 8
SLAHoursUrgent == 4

SLAHours(p) ==
  CASE p = PriorityLow -> SLAHoursLow
    [] p = PriorityNormal -> SLAHoursNormal
    [] p = PriorityHigh -> SLAHoursHigh
    [] p = PriorityUrgent -> SLAHoursUrgent
    [] OTHER -> SLAHoursNormal

\* CalculateSLADeadline returning the start time itself.
CalculateSLADeadline_NoDuration(p, from) == from

CalculateSLADeadline(p, from) == from + SLAHours(p)

\* Severity ranking high as high as urgent.
Severity_HighIsTop(p) ==
  CASE p = PriorityUrgent -> 4
    [] p = PriorityHigh -> 4
    [] p = PriorityNormal -> 2
    [] p = PriorityLow -> 1
    [] OTHER -> 0

Severity(p) ==
  CASE p = PriorityUrgent -> 4
    [] p = PriorityHigh -> 3
    [] p = PriorityNormal -> 2
    [] p = PriorityLow -> 1
    [] OTHER -> 0

\* ParseTicketPriority: the priority and whether parsing succeeded.
ParseTicketPriority(s) ==
  IF s \in AllTicketPriorities
    THEN [priority |-> s, ok |-> TRUE]
    ELSE [priority |-> "", ok |-> FALSE]

\* ------------------------------------------------- shared.SenderType
SenderCustomer == "customer"
SenderAgent == "agent"
SenderSystem == "system"
AllSenderTypes == {SenderCustomer, SenderAgent, SenderSystem}
IsAgent(st) == st = SenderAgent

\* ------------------------------------------------------------- errors
Nil == "nil"
ErrCannotModify == "ticket cannot be modified in current state"
ErrNotAssigned == "ticket is not assigned"
ErrHighestPriority == "ticket is already at highest priority"
ErrSubjectRequired == "subject is required"
ErrOwnerRequired == "customer or guest email is required"
ErrRateStatus == "can only rate resolved or closed tickets"
ErrRateRange == "rating must be between 1 and 5"

\* A nil *time.Time and a nil *int.
NoTime == -1
NoRating == -1

\* ------------------------------------------------------------- events
NewEvent(type, data, now) == [type |-> type, data |-> data]

addEvent(t, event) == [t EXCEPT !.events = Append(@, event)]

\* ----------------------------------------------------- status history
\* NewStatusHistory with the two statuses exchanged.
NewStatusHistory_Swapped(from, to, changedBy, notes, now) ==
  [fromStatus |-> to, toStatus |-> from, changedBy |-> changedBy, notes |-> notes]

NewStatusHistory(from, to, changedBy, notes, now) ==
  [fromStatus |-> from, toStatus |-> to, changedBy |-> changedBy, notes |-> notes]

\* ------------------------------------------------------ Ticket methods
\* Every method is an operator from the ticket, the arguments and the
\* clock reading to the ticket after the call and the returned error.

ZeroTicket ==
  [customerID |-> NoID, guestEmail |-> "", subject |-> "",
   status |-> "", priority |-> "", assignedTo |-> NoID,
   slaDeadline |-> NoTime, firstResponseAt |-> NoTime,
   resolvedAt |-> NoTime, closedAt |-> NoTime,
   satisfactionRating |-> NoRating, satisfactionComment |-> "",
   messages |-> <<>>, statusHistory |-> <<>>, tags |-> <<>>,
   createdAt |-> 0, updatedAt |-> 0, events |-> <<>>]

\* NewTicket defaulting to the low priority.
NewTicket_LowDefault(params, now) ==
  IF params.Subject = ""
    THEN [t |-> ZeroTicket, err |-> ErrSubjectRequired]
  ELSE IF params.CustomerID = NoID /\ params.GuestEmail = ""
    THEN [t |-> ZeroTicket, err |-> ErrOwnerRequired]
  ELSE
    LET parsed == ParseTicketPriority(params.Priority)
        priority == IF params.Priority # "" /\ parsed.ok
                      THEN parsed.priority ELSE PriorityLow
        slaDeadline == IF params.SLAHours > 0
                         THEN now + params.SLAHours
                         ELSE CalculateSLADeadline(priority, now)
        ticket == [ZeroTicket EXCEPT
                     !.customerID = params.CustomerID,
                     !.guestEmail = params.GuestEmail,
                     !.subject = params.Subject,
                     !.status = StatusOpen,
                     !.priority = priority,
                     !.slaDeadline = slaDeadline,
                     !.tags = params.Tags,
                     !.createdAt = now,
                     !.updatedAt = now]
    IN [t |-> addEvent(ticket, NewEvent("ticket.created", <<params.Subject>>, now)),
        err |-> Nil]

NewTicket(params, now) ==
  IF params.Subject = ""
    THEN [t |-> ZeroTicket, err |-> ErrSubjectRequired]
  ELSE IF params.CustomerID = NoID /\ params.GuestEmail = ""
    THEN [t |-> ZeroTicket, err |-> ErrOwnerRequired]
  ELSE
    LET parsed == ParseTicketPriority(params.Priority)
        priority == IF params.Priority # "" /\ parsed.ok
                      THEN parsed.priority ELSE PriorityNormal
        slaDeadline == IF params.SLAHours > 0
                         THEN now + params.SLAHours
                         ELSE CalculateSLADeadline(priority, now)
        ticket == [ZeroTicket EXCEPT
                     !.customerID = params.CustomerID,
                     !.guestEmail = params.GuestEmail,
                     !.subject = params.Subject,
                     !.status = StatusOpen,
                     !.priority = priority,
                     !.slaDeadline = slaDeadline,
                     !.tags = params.Tags,
                     !.createdAt = now,
                     !.updatedAt = now]
    IN [t |-> addEvent(ticket, NewEvent("ticket.created", <<params.Subject>>, now)),
        err |-> Nil]

\* transitionStatus without the status policy check.
transitionStatus_Unchecked(t, target, changedBy, notes, now) ==
  [t |-> addEvent(
           [t EXCEPT
              !.statusHistory =
                 Append(@, NewStatusHistory(t.status, target, changedBy, notes, now)),
              !.status = target,
              !.updatedAt = now],
           NewEvent("ticket.status_changed", <<target>>, now)),
   err |-> Nil]

transitionStatus(t, target, changedBy, notes, now) ==
  IF ~CanTransitionTo(t.status, target)
    THEN [t |-> t, err |-> ErrCannotModify]
    ELSE [t |-> addEvent(
                  [t EXCEPT
                     !.statusHistory =
                        Append(@, NewStatusHistory(t.status, target, changedBy, notes, now)),
                     !.status = target,
                     !.updatedAt = now],
                  NewEvent("ticket.status_changed", <<target>>, now)),
          err |-> Nil]

\* Assign refusing every inactive ticket (resolved as well as closed).
Assign_ActiveOnly(t, agentID, changedBy, now) ==
  IF ~IsActive(t.status)
    THEN [t |-> t, err |-> ErrCannotModify]
    ELSE LET t1 == [t EXCEPT !.assignedTo = agentID, !.updatedAt = now]
             t2 == IF IsOpen(t1.status)
                     THEN transitionStatus(t1, StatusInProgress, changedBy,
                                           "Assigned to agent", now).t
                     ELSE t1
         IN [t |-> addEvent(t2, NewEvent("ticket.assigned", <<agentID>>, now)),
             err |-> Nil]

Assign(t, agentID, changedBy, now) ==
  IF IsClosed(t.status)
    THEN [t |-> t, err |-> ErrCannotModify]
    ELSE LET t1 == [t EXCEPT !.assignedTo = agentID, !.updatedAt = now]
             t2 == IF IsOpen(t1.status)
                     THEN transitionStatus(t1, StatusInProgress, changedBy,
                                           "Assigned to agent", now).t
                     ELSE t1
         IN [t |-> addEvent(t2, NewEvent("ticket.assigned", <<agentID>>, now)),
             err |-> Nil]

\* Unassign sending a pending ticket back to open as well.
Unassign_FromPending(t, changedBy, now) ==
  IF t.assignedTo = NoID
    THEN [t |-> t, err |-> ErrNotAssigned]
    ELSE LET t1 == [t EXCEPT !.assignedTo = NoID, !.updatedAt = now]
             t2 == IF IsInProgress(t1.status) \/ t1.status = StatusPending
                     THEN transitionStatus(t1, StatusOpen, changedBy, "Unassigned", now).t
                     ELSE t1
         IN [t |-> t2, err |-> Nil]

\* The error transitionStatus returns is dropped by Unassign.
Unassign(t, changedBy, now) ==
  IF t.assignedTo = NoID
    THEN [t |-> t, err |-> ErrNotAssigned]
    ELSE LET t1 == [t EXCEPT !.assignedTo = NoID, !.updatedAt = now]
             t2 == IF IsInProgress(t1.status)
                     THEN transitionStatus(t1, StatusOpen, changedBy, "Unassigned", now).t
                     ELSE t1
         IN [t |-> t2, err |-> Nil]

\* Escalate going from low straight to high.
Escalate_SkipNormal(t, reason, changedBy, now) ==
  IF IsClosed(t.status)
    THEN [t |-> t, err |-> ErrCannotModify]
  ELSE LET currentSeverity == Severity(t.priority) IN
    IF currentSeverity >= 4
      THEN [t |-> t, err |-> ErrHighestPriority]
      ELSE LET newPriority == IF currentSeverity < 3 THEN PriorityHigh
                              ELSE PriorityUrgent
           IN [t |-> addEvent(
                       [t EXCEPT
                          !.priority = newPriority,
                          !.slaDeadline = CalculateSLADeadline(newPriority, now),
                          !.updatedAt = now],
                       NewEvent("ticket.escalated", <<newPriority, reason>>, now)),
               err |-> Nil]

\* Escalate leaving the deadline of the old priority in place.
Escalate_KeepDeadline(t, reason, changedBy, now) ==
  IF IsClosed(t.status)
    THEN [t |-> t, err |-> ErrCannotModify]
  ELSE LET currentSeverity == Severity(t.priority) IN
    IF currentSeverity >= 4
      THEN [t |-> t, err |-> ErrHighestPriority]
      ELSE LET newPriority == IF currentSeverity < 2 THEN PriorityNormal
                              ELSE IF currentSeverity < 3 THEN PriorityHigh
                              ELSE PriorityUrgent
           IN [t |-> addEvent(
                       [t EXCEPT !.priority = newPriority, !.updatedAt = now],
                       NewEvent("ticket.escalated", <<newPriority, reason>>, now)),
               err |-> Nil]

\* Escalate on an urgent ticket refreshing updatedAt before it fails.
Escalate_TouchThenFail(t, reason, changedBy, now) ==
  IF IsClosed(t.status)
    THEN [t |-> t, err |-> ErrCannotModify]
  ELSE LET currentSeverity == Severity(t.priority) IN
    IF currentSeverity >= 4
      THEN [t |-> [t EXCEPT !.updatedAt = now], err |-> ErrHighestPriority]
      ELSE LET newPriority == IF currentSeverity < 2 THEN PriorityNormal
                              ELSE IF currentSeverity < 3 THEN PriorityHigh
                              ELSE PriorityUrgent
           IN [t |-> addEvent(
                       [t EXCEPT
                          !.priority = newPriority,
                          !.slaDeadline = CalculateSLADeadline(newPriority, now),
                          !.updatedAt = now],
                       NewEvent("ticket.escalated", <<newPriority, reason>>, now)),
               err |-> Nil]

Escalate(t, reason, changedBy, now) ==
  IF IsClosed(t.status)
    THEN [t |-> t, err |-> ErrCannotModify]
  ELSE LET currentSeverity == Severity(t.priority) IN
    IF currentSeverity >= 4
      THEN [t |-> t, err |-> ErrHighestPriority]
      ELSE LET newPriority == IF currentSeverity < 2 THEN PriorityNormal
                              ELSE IF currentSeverity < 3 THEN PriorityHigh
                              ELSE PriorityUrgent
           IN [t |-> addEvent(
                       [t EXCEPT
                          !.priority = newPriority,
                          !.slaDeadline = CalculateSLADeadline(newPriority, now),
                          !.updatedAt = now],
                       NewEvent("ticket.escalated", <<newPriority, reason>>, now)),
               err |-> Nil]

SetPending(t, reason, changedBy, now) ==
  transitionStatus(t, StatusPending, changedBy, reason, now)

Resolve(t, resolution, changedBy, now) ==
  LET r == transitionStatus(t, StatusResolved, changedBy, resolution, now) IN
  IF r.err # Nil
    THEN r
    ELSE [t |-> addEvent([r.t EXCEPT !.resolvedAt = now],
                         NewEvent("ticket.resolved", <<resolution>>, now)),
          err |-> Nil]

\* Close leaving closedAt unset.
Close_NoStamp(t, changedBy, now) ==
  LET r == transitionStatus(t, StatusClosed, changedBy, "Ticket closed", now) IN
  IF r.err # Nil
    THEN r
    ELSE [t |-> addEvent(r.t, NewEvent("ticket.closed", <<>>, now)),
          err |-> Nil]

Close(t, changedBy, now) ==
  LET r == transitionStatus(t, StatusClosed, changedBy, "Ticket closed", now) IN
  IF r.err # Nil
    THEN r
    ELSE [t |-> addEvent([r.t EXCEPT !.closedAt = now],
                         NewEvent("ticket.closed", <<>>, now)),
          err |-> Nil]

\* Reopen leaving resolvedAt as Resolve stamped it.
Reopen_KeepResolvedAt(t, reason, changedBy, now) ==
  IF ~IsResolved(t.status)
    THEN [t |-> t, err |-> ErrCannotModify]
    ELSE transitionStatus(t, StatusOpen, changedBy, reason, now)

Reopen(t, reason, changedBy, now) ==
  IF ~IsResolved(t.status)
    THEN [t |-> t, err |-> ErrCannotModify]
    ELSE transitionStatus([t EXCEPT !.resolvedAt = NoTime],
                          StatusOpen, changedBy, reason, now)

NewMessage(senderType, isInternal, now) ==
  [senderType |-> senderType, isInternal |-> isInternal, readAt |-> NoTime]

\* (*Message).MarkAsRead: the message after the call.
MarkAsRead(m, now) ==
  IF m.readAt = NoTime THEN [m EXCEPT !.readAt = now] ELSE m

\* AddMessage putting the message in front of the list.
AddMessage_Prepend(t, msg, now) ==
  LET t1 == [t EXCEPT !.messages = <<msg>> \o @, !.updatedAt = now]
  IN [t |-> IF t1.firstResponseAt = NoTime /\ IsAgent(msg.senderType)
              THEN [t1 EXCEPT !.firstResponseAt = now]
              ELSE t1,
      err |-> Nil]

\* AddMessage stamping firstResponseAt at every agent message.
AddMessage_Overwrite(t, msg, now) ==
  LET t1 == [t EXCEPT !.messages = Append(@, msg), !.updatedAt = now]
  IN [t |-> IF IsAgent(msg.senderType)
              THEN [t1 EXCEPT !.firstResponseAt = now]
              ELSE t1,
      err |-> Nil]

\* AddMessage refusing a closed ticket.
AddMessage_RefuseClosed(t, msg, now) ==
  IF IsClosed(t.status)
    THEN [t |-> t, err |-> ErrCannotModify]
    ELSE LET t1 == [t EXCEPT !.messages = Append(@, msg), !.updatedAt = now]
         IN [t |-> IF t1.firstResponseAt = NoTime /\ IsAgent(msg.senderType)
                     THEN [t1 EXCEPT !.firstResponseAt = now]
                     ELSE t1,
             err |-> Nil]

AddMessage(t, msg, now) ==
  LET t1 == [t EXCEPT !.messages = Append(@, msg), !.updatedAt = now]
  IN [t |-> IF t1.firstResponseAt = NoTime /\ IsAgent(msg.senderType)
              THEN [t1 EXCEPT !.firstResponseAt = now]
              ELSE t1,
      err |-> Nil]

\* RateSatisfaction accepting the rating 0.
RateSatisfaction_ZeroAccepted(t, rating, comment, now) ==
  IF ~IsResolved(t.status) /\ ~IsClosed(t.status)
    THEN [t |-> t, err |-> ErrRateStatus]
  ELSE IF rating < 0 \/ rating > 5
    THEN [t |-> t, err |-> ErrRateRange]
  ELSE [t |-> [t EXCEPT !.satisfactionRating = rating,
                        !.satisfactionComment = comment,
                        !.updatedAt = now],
        err |-> Nil]

RateSatisfaction(t, rating, comment, now) ==
  IF ~IsResolved(t.status) /\ ~IsClosed(t.status)
    THEN [t |-> t, err |-> ErrRateStatus]
  ELSE IF rating < 1 \/ rating > 5
    THEN [t |-> t, err |-> ErrRateRange]
  ELSE [t |-> [t EXCEPT !.satisfactionRating = rating,
                        !.satisfactionComment = comment,
                        !.updatedAt = now],
        err |-> Nil]

\* IsOverdue counting the deadline hour itself as late.
IsOverdue_AtDeadline(t, now) ==
  IF t.slaDeadline = NoTime THEN FALSE
  ELSE IF ~IsActive(t.status) THEN FALSE
  ELSE now >= t.slaDeadline

\* IsOverdue reads the ticket and the clock and writes nothing.
IsOverdue(t, now) ==
  IF t.slaDeadline = NoTime THEN FALSE
  ELSE IF ~IsActive(t.status) THEN FALSE
  ELSE now > t.slaDeadline

\* The index of the first occurrence of tag in tags, 0 when there is none.
FirstIndex(tags, tag) ==
  IF \E i \in 1..Len(tags) : tags[i] = tag
    THEN CHOOSE i \in 1..Len(tags) :
           /\ tags[i] = tag
           /\ \A j \in 1..(i - 1) : tags[j] # tag
    ELSE 0

\* AddTag and RemoveTag return nothing: the ticket after the call.
AddTag(t, tag, now) ==
  IF FirstIndex(t.tags, tag) # 0
    THEN t
    ELSE [t EXCEPT !.tags = Append(@, tag), !.updatedAt = now]

RemoveTag(t, tag, now) ==
  LET i == FirstIndex(t.tags, tag) IN
  IF i = 0
    THEN t
    ELSE [t EXCEPT !.tags = SubSeq(@, 1, i - 1) \o SubSeq(@, i + 1, Len(@)),
                   !.updatedAt = now]

\* Events() returning the buffer without clearing it.
Events_KeepBuffer(t) == [t |-> t, events |-> t.events]

\* Events(): the drained events and the ticket with an empty buffer.
Events(t) == [t |-> [t EXCEPT !.events = <<>>], events |-> t.events]

\* -------------------------------------------- persistence repositories
\* A repository call is an operator on the stored rows.  gorm's Save writes
\* every column of the struct it is given and Updates writes the columns of
\* its map; updated_at, which every write refreshes and nothing reads, is
\* left out of the row.

\* TicketRepository.Create: INSERT of the handler's ticket.
TicketRepositoryCreate(customerID) ==
  [stored |-> TRUE, customerID |-> customerID, status |-> StatusOpen,
   firstResponseAt |-> NoTime, resolvedAt |-> NoTime, closedAt |-> NoTime,
   assignedTo |-> NoID, satisfactionRating |-> NoRating]

\* TicketRepository.Update: Save of the whole struct the handler holds.
TicketRepositoryUpdate(row, t) == t

\* TicketRepository.UpdateStatus: the row and the history its transaction
\* commits.
UpdateStatus(row, history, newStatus, now) ==
  LET r1 == [row EXCEPT !.status = newStatus]
      r2 == IF newStatus = StatusResolved /\ row.resolvedAt = NoTime
              THEN [r1 EXCEPT !.resolvedAt = now] ELSE r1
      r3 == IF newStatus = StatusClosed /\ row.closedAt = NoTime
              THEN [r2 EXCEPT !.closedAt = now] ELSE r2
  IN [row |-> r3,
      history |-> Append(history, [fromStatus |-> row.status, toStatus |-> newStatus])]

\* TicketRepository.Assign: UPDATE of the one column.
TicketRepositoryAssign(row, agentID) == [row EXCEPT !.assignedTo = agentID]

\* MessageRepository.Create, first half: the updates map the transaction
\* builds from the ticket it reads (NoTime and "": the key is not in the map).
NoUpdates == [firstResponseAt |-> NoTime, status |-> ""]

MessageCreateUpdates(message, row, now) ==
  IF message.senderType = SenderAgent
    THEN [firstResponseAt |-> IF row.firstResponseAt = NoTime THEN now ELSE NoTime,
          status |-> IF row.status = StatusOpen THEN StatusInProgress ELSE ""]
    ELSE NoUpdates

\* MessageRepository.Create, second half: the UPDATE with that map.
MessageCreateApply(row, updates) ==
  LET r1 == IF updates.firstResponseAt # NoTime
              THEN [row EXCEPT !.firstResponseAt = updates.firstResponseAt] ELSE row
  IN IF updates.status # "" THEN [r1 EXCEPT !.status = updates.status] ELSE r1

\* GetByTicketID without the is_internal condition.
GetByTicketID_Unfiltered(messages, includeInternal) == messages

\* MessageRepository.GetByTicketID: the rows in creation order, without the
\* internal ones unless includeInternal.
GetByTicketID(messages, includeInternal) ==
  IF includeInternal THEN messages
  ELSE SelectSeq(messages, LAMBDA m : m.isInternal = FALSE)

\* --------------------------------------------------------------- state
VARIABLES
  ticket,     \* the aggregate (ZeroTicket until NewTicket succeeds)
  live,       \* TRUE once NewTicket has returned a ticket
  now,        \* the clock, in hours
  audit,      \* history of the run: how the priority came to be what it is
  request,    \* the TicketParams of the NewTicket call that made the ticket
  dbTicket,   \* the row of the ticket in the tickets table
  dbHistory,  \* the rows of the ticket in the status history table
  dbMessages, \* the rows of the ticket in the messages table
  reqs,       \* the HTTP requests started so far, each with its position
  published   \* the events handed to the message broker

domainVars == <<ticket, live, now, audit, request>>
storeVars == <<dbTicket, dbHistory, dbMessages, reqs, published>>
vars == <<ticket, live, now, audit, request,
          dbTicket, dbHistory, dbMessages, reqs, published>>

\* audit.createdPriority: the priority NewTicket gave the ticket;
\* audit.slaHours: params.SLAHours of the creation;
\* audit.prioritySetAt: the clock at creation or at the last successful Escalate;
\* audit.escalations: the number of successful Escalate calls.
NoAudit ==
  [createdPriority |-> "", slaHours |-> 0, prioritySetAt |-> 0, escalations |-> 0]

NoParams ==
  [Subject |-> "", CustomerID |-> NoID, GuestEmail |-> "", Priority |-> "",
   SLAHours |-> 0, Tags |-> <<>>]

\* The columns of the tickets table the handlers and repositories below
\* read or write; stored is FALSE while the table has no row for the ticket.
NoRow ==
  [stored |-> FALSE, customerID |-> NoID, status |-> "", firstResponseAt |-> NoTime,
   resolvedAt |-> NoTime, closedAt |-> NoTime, assignedTo |-> NoID,
   satisfactionRating |-> NoRating]

Init ==
  /\ ticket = ZeroTicket
  /\ live = FALSE
  /\ now = 0
  /\ audit = NoAudit
  /\ request = NoParams
  /\ dbTicket = NoRow
  /\ dbHistory = <<>>
  /\ dbMessages = <<>>
  /\ reqs = <<>>
  /\ published = {}

\* The state space is kept finite by these limits on the collections.
Fits(t) ==
  /\ Len(t.statusHistory) + Len(t.messages) + Len(t.events) <= MaxEntries
  /\ Len(t.messages) <= MaxMessages
  /\ Len(t.tags) <= MaxTags

\* A call that returned r: the aggregate is the ticket the call left.
Call(r) ==
  /\ Fits(r.t)
  /\ ticket' = r.t

Tick ==
  /\ now < MaxTime
  /\ now' = now + 1
  /\ UNCHANGED <<ticket, live, audit, request, storeVars>>

\* The TicketParams built from the fields the constructor reads.
TicketParams(S, C, E, P, H, T) ==
  {[Subject |-> s, CustomerID |-> c, GuestEmail |-> e, Priority |-> p,
    SLAHours |-> h, Tags |-> tg] :
     s \in S, c \in C, e \in E, p \in P, h \in H, tg \in T}

\* A NewTicket call with params: a ticket exists when it returned no error.
Create(params) ==
  LET r == NewTicket(params, now)
  IN /\ Call(r)
     /\ live' = (r.err = Nil)
     /\ audit' = IF r.err = Nil
                   THEN [createdPriority |-> r.t.priority,
                         slaHours |-> params.SLAHours,
                         prioritySetAt |-> now, escalations |-> 0]
                   ELSE audit
     /\ request' = IF r.err = Nil THEN params ELSE request

NewTicketAct ==
  /\ ~live
  /\ \E params \in TicketParams(SubjectInputs, CustomerInputs, EmailInputs,
                                 PriorityInputs, SLAHoursInputs, TagsInputs) :
       Create(params)
  /\ UNCHANGED <<now, storeVars>>

AssignAct ==
  /\ live
  /\ \E a \in Agents, by \in Actors : Call(Assign(ticket, a, by, now))
  /\ UNCHANGED <<live, now, audit, request, storeVars>>

UnassignAct ==
  /\ live
  /\ \E by \in Actors : Call(Unassign(ticket, by, now))
  /\ UNCHANGED <<live, now, audit, request, storeVars>>

EscalateAct ==
  /\ live
  /\ \E reason \in Reasons, by \in Actors :
       LET r == Escalate(ticket, reason, by, now)
       IN /\ Call(r)
          /\ audit' = IF r.err = Nil
                        THEN [audit EXCEPT !.prioritySetAt = now,
                                           !.escalations = @ + 1]
                        ELSE audit
  /\ UNCHANGED <<live, now, request, storeVars>>

SetPendingAct ==
  /\ live
  /\ \E reason \in Reasons, by \in Actors :
       Call(SetPending(ticket, reason, by, now))
  /\ UNCHANGED <<live, now, audit, request, storeVars>>

ResolveAct ==
  /\ live
  /\ \E resolution \in Reasons, by \in Actors :
       Call(Resolve(ticket, resolution, by, now))
  /\ UNCHANGED <<live, now, audit, request, storeVars>>

CloseAct ==
  /\ live
  /\ \E by \in Actors : Call(Close(ticket, by, now))
  /\ UNCHANGED <<live, now, audit, request, storeVars>>

ReopenAct ==
  /\ live
  /\ \E reason \in Reasons, by \in Actors :
       Call(Reopen(ticket, reason, by, now))
  /\ UNCHANGED <<live, now, audit, request, storeVars>>

AddMessageAct ==
  /\ live
  /\ \E st \in SenderInputs, internal \in InternalInputs :
       /\ internal => IsAgent(st)
       /\ Call(AddMessage(ticket, NewMessage(st, internal, now), now))
  /\ UNCHANGED <<live, now, audit, request, storeVars>>

RateSatisfactionAct ==
  /\ live
  /\ \E rating \in RatingInputs, comment \in CommentInputs :
       Call(RateSatisfaction(ticket, rating, comment, now))
  /\ UNCHANGED <<live, now, audit, request, storeVars>>

EventsAct ==
  /\ live
  /\ LET r == Events(ticket)
     IN ticket' = r.t
  /\ UNCHANGED <<live, now, audit, request, storeVars>>

Next ==
  \/ Tick
  \/ NewTicketAct
  \/ AssignAct
  \/ UnassignAct
  \/ EscalateAct
  \/ SetPendingAct
  \/ ResolveAct
  \/ CloseAct
  \/ ReopenAct
  \/ AddMessageAct
  \/ RateSatisfactionAct
  \/ EventsAct

Spec == Init /\ [][Next]_vars

\* ---------------------------------------- creation, tagging and lateness
\* Creation with every combination of the owner fields, the priority string
\* and the initial tags, followed by the tag operations and the resolution,
\* under a clock that runs past the deadline of a one-hour SLA.
LateTick ==
  /\ now < MaxLateTime
  /\ now' = now + 1
  /\ UNCHANGED <<ticket, live, audit, request, storeVars>>

NewTicketIntakeAct ==
  /\ ~live
  /\ \E params \in TicketParams(SubjectInputs, CustomerArgs, EmailInputs,
                                 PriorityArgs, SLAHoursInputs, TagsArgs) :
       Create(params)
  /\ UNCHANGED <<now, storeVars>>

AddTagAct ==
  /\ live
  /\ \E tag \in TagNames :
       /\ Fits(AddTag(ticket, tag, now))
       /\ ticket' = AddTag(ticket, tag, now)
  /\ UNCHANGED <<live, now, audit, request, storeVars>>

RemoveTagAct ==
  /\ live
  /\ \E tag \in TagNames : ticket' = RemoveTag(ticket, tag, now)
  /\ UNCHANGED <<live, now, audit, request, storeVars>>

IntakeNext ==
  \/ LateTick
  \/ ResolveAct
  \/ NewTicketIntakeAct
  \/ AddTagAct
  \/ RemoveTagAct

IntakeSpec == Init /\ [][IntakeNext]_vars

\* ------------------------------------------------------- HTTP handlers
\* The handlers of one ticket, run by concurrent requests.  A request takes
\* one step per repository call; what a handler does between two calls
\* (building structs, publishing, writing the response) touches no row and
\* is part of the step of the call before it.  A repository call returns an
\* error or not (Outcomes); the publisher is absent, delivers or fails
\* (PublishInputs).
Outcomes == {"ok", "err"}
PublishInputs == {"nil", "ok", "err"}
StatusRequests == {"", StatusOpen, StatusResolved, StatusClosed}
Callers ==
  {[user |-> "c1", role |-> "customer"], [user |-> "u2", role |-> "customer"],
   [user |-> "a1", role |-> "admin"]}
Owner == [user |-> "c1", role |-> "customer"]
Admin == [user |-> "a1", role |-> "admin"]
RatingGiven == 5

\* A request: op is the handler, pc the repository call it is about to make,
\* loaded the ticket GetByID gave it, updates the map of the message
\* transaction, first and second the outcomes of its repository writes, pubs
\* the number of publish attempts, code the HTTP status of its response.
NewRequest(op, caller, status, isInternal) ==
  [op |-> op, pc |-> "", user |-> caller.user, role |-> caller.role,
   status |-> status, isInternal |-> isInternal, senderType |-> "",
   loaded |-> NoRow, updates |-> NoUpdates,
   first |-> "none", second |-> "none", pubs |-> 0, publish |-> "none",
   code |-> 0, messages |-> <<>>]

\* The request after its response: the handler's locals are gone.
Respond(r, code) ==
  [r EXCEPT !.pc = "done", !.code = code, !.loaded = NoRow, !.updates = NoUpdates]

IsStaff(role) == role = "admin" \/ role = "super_admin" \/ role = "support"

\* TicketHandler.GetByID: the ownership check and the includeInternal flag.
AccessDenied(row, user, role) ==
  row.customerID # NoID /\ row.customerID # user /\ ~IsStaff(role)

IncludeInternal(role) == IsStaff(role)

\* GetByID: ticket.Messages, which ticketRepo.GetByID preloaded with every
\* message, after the handler assigned it what messageRepo.GetByTicketID
\* returned (nothing when that call failed: its error is dropped).
TicketMessages(preloaded, fetched, outcome) ==
  IF outcome = "ok" THEN fetched ELSE <<>>

\* TicketHandler.AddMessage: the sender type, "" when access is denied.
AddMessageSenderType(row, user, role) ==
  IF row.customerID # NoID /\ row.customerID # user
    THEN IF IsStaff(role) THEN SenderAgent ELSE ""
    ELSE SenderCustomer

\* The publish condition evaluated before the error of messageRepo.Create is
\* looked at.
ReplyPublishes_BeforeCheck(op, outcome, publisher, isInternal) ==
  /\ publisher # "nil"
  /\ op = "ReplyToTicket" => ~isInternal

\* Whether the handler calls the publisher after messageRepo.Create returned
\* outcome, with publisher "nil" when h.publisher is nil.
ReplyPublishes(op, outcome, publisher, isInternal) ==
  /\ outcome = "ok"
  /\ publisher # "nil"
  /\ op = "ReplyToTicket" => ~isInternal

\* Create and SubmitContactForm publish whatever messageRepo.Create returned.
CreatePublishes(outcome, publisher) == publisher # "nil"

\* The request r after a publish decision: one attempt when it publishes.
Published(r, publishes, publisher) ==
  IF publishes THEN [r EXCEPT !.pubs = @ + 1, !.publish = publisher] ELSE r

CanStart == Len(reqs) < MaxRequests

Running(i, pc) == i \in 1..Len(reqs) /\ reqs[i].pc = pc

\* TicketHandler.Create and SubmitContactForm up to ticketRepo.Create.
CreateTicketAct ==
  /\ CanStart
  /\ ~dbTicket.stored
  /\ \A i \in 1..Len(reqs) : reqs[i].pc = "done"
  /\ \E op \in {"Create", "SubmitContactForm"}, outcome \in Outcomes :
       LET r == [NewRequest(op, Owner, "", FALSE) EXCEPT
                   !.first = outcome, !.senderType = SenderCustomer]
       IN IF outcome = "err"
            THEN /\ reqs' = Append(reqs, Respond(r, 500))
                 /\ UNCHANGED dbTicket
            ELSE /\ reqs' = Append(reqs, [r EXCEPT !.pc = "message"])
                 /\ dbTicket' = TicketRepositoryCreate(
                                  IF op = "Create" THEN Owner.user ELSE NoID)
  /\ UNCHANGED <<domainVars, dbHistory, dbMessages, published>>

\* Create and SubmitContactForm from messageRepo.Create to the response.
CreateMessageAct ==
  \E i \in 1..Len(reqs), outcome \in Outcomes, publisher \in PublishInputs :
    /\ Running(i, "message")
    /\ LET r == [reqs[i] EXCEPT !.second = outcome]
           publishes == CreatePublishes(outcome, publisher)
       IN /\ dbMessages' =
               IF outcome = "ok"
                 THEN Append(dbMessages, [senderType |-> r.senderType,
                                          isInternal |-> FALSE, req |-> i])
                 ELSE dbMessages
          /\ published' =
               IF publishes /\ publisher = "ok"
                 THEN published \cup {[type |-> "support.ticket.created",
                                       req |-> i, isInternal |-> FALSE]}
                 ELSE published
          /\ reqs' = [reqs EXCEPT ![i] = Respond(Published(r, publishes, publisher), 201)]
    /\ UNCHANGED <<domainVars, dbTicket, dbHistory>>

\* AdminHandler.UpdateTicket up to ticketRepo.GetByID.
UpdateTicketAct ==
  /\ CanStart
  /\ dbTicket.stored
  /\ \E status \in StatusRequests :
       LET r == [NewRequest("UpdateTicket", Admin, status, FALSE) EXCEPT
                   !.loaded = dbTicket]
       IN reqs' = Append(reqs,
                    [r EXCEPT !.pc = IF status # "" /\ status # dbTicket.status
                                       THEN "updateStatus" ELSE "update"])
  /\ UNCHANGED <<domainVars, dbTicket, dbHistory, dbMessages, published>>

\* UpdateTicket: ticketRepo.UpdateStatus, whose error is logged, and the
\* assignment to ticket.Status that follows it in either case.
UpdateStatusAct ==
  \E i \in 1..Len(reqs), outcome \in Outcomes :
    /\ Running(i, "updateStatus")
    /\ LET r == reqs[i]
           u == UpdateStatus(dbTicket, dbHistory, r.status, now)
       IN /\ dbTicket' = IF outcome = "ok" THEN u.row ELSE dbTicket
          /\ dbHistory' = IF outcome = "ok" THEN u.history ELSE dbHistory
          /\ reqs' = [reqs EXCEPT ![i] =
                        [r EXCEPT !.first = outcome, !.pc = "update",
                                  !.loaded = [r.loaded EXCEPT !.status = r.status]]]
    /\ UNCHANGED <<domainVars, dbMessages, published>>

\* UpdateTicket and RateTicket: ticketRepo.Update and the response.
UpdateAct ==
  \E i \in 1..Len(reqs), outcome \in Outcomes :
    /\ Running(i, "update")
    /\ LET r == [reqs[i] EXCEPT !.second = outcome]
       IN /\ dbTicket' = IF outcome = "ok"
                           THEN TicketRepositoryUpdate(dbTicket, r.loaded)
                           ELSE dbTicket
          /\ reqs' = [reqs EXCEPT ![i] =
                        Respond(r, IF outcome = "ok" THEN 200 ELSE 500)]
    /\ UNCHANGED <<domainVars, dbHistory, dbMessages, published>>

\* TicketHandler.RateTicket up to the status check.
RateTicketAct ==
  /\ CanStart
  /\ dbTicket.stored
  /\ LET r == NewRequest("RateTicket", Owner, "", FALSE)
     IN reqs' = Append(reqs,
          IF dbTicket.status # StatusResolved /\ dbTicket.status # StatusClosed
            THEN Respond(r, 400)
            ELSE [r EXCEPT !.pc = "update",
                           !.loaded = [dbTicket EXCEPT
                                         !.satisfactionRating = RatingGiven]])
  /\ UNCHANGED <<domainVars, dbTicket, dbHistory, dbMessages, published>>

\* AdminHandler.AssignTicket: ticketRepo.Assign and the response.
AssignTicketAct ==
  /\ CanStart
  /\ dbTicket.stored
  /\ \E agentID \in Agents, outcome \in Outcomes :
       /\ dbTicket' = IF outcome = "ok"
                        THEN TicketRepositoryAssign(dbTicket, agentID)
                        ELSE dbTicket
       /\ reqs' = Append(reqs,
            Respond([NewRequest("AssignTicket", Admin, "", FALSE) EXCEPT
                       !.first = outcome],
                    IF outcome = "ok" THEN 200 ELSE 500))
  /\ UNCHANGED <<domainVars, dbHistory, dbMessages, published>>

\* AdminHandler.ReplyToTicket up to the read of the message transaction.
ReplyToTicketAct ==
  /\ CanStart
  /\ dbTicket.stored
  /\ \E isInternal \in BOOLEAN :
       LET r == [NewRequest("ReplyToTicket", Admin, "", isInternal) EXCEPT
                   !.senderType = SenderAgent]
       IN reqs' = Append(reqs,
            [r EXCEPT !.pc = "commit",
                      !.updates = MessageCreateUpdates(r, dbTicket, now)])
  /\ UNCHANGED <<domainVars, dbTicket, dbHistory, dbMessages, published>>

\* TicketHandler.AddMessage up to the read of the message transaction.
AddMessageRequestAct ==
  /\ CanStart
  /\ dbTicket.stored
  /\ \E caller \in Callers :
       LET st == AddMessageSenderType(dbTicket, caller.user, caller.role)
           r == [NewRequest("AddMessage", caller, "", FALSE) EXCEPT !.senderType = st]
       IN reqs' = Append(reqs,
            IF st = ""
              THEN Respond(r, 403)
              ELSE [r EXCEPT !.pc = "commit",
                             !.updates = MessageCreateUpdates(r, dbTicket, now)])
  /\ UNCHANGED <<domainVars, dbTicket, dbHistory, dbMessages, published>>

\* ReplyToTicket and AddMessage: the end of messageRepo.Create (the UPDATE
\* and the commit, or the rollback), the publication and the response.
CommitMessageAct ==
  \E i \in 1..Len(reqs), outcome \in Outcomes, publisher \in PublishInputs :
    /\ Running(i, "commit")
    /\ LET r == [reqs[i] EXCEPT !.first = outcome]
           publishes == ReplyPublishes(r.op, outcome, publisher, r.isInternal)
       IN /\ dbMessages' =
               IF outcome = "ok"
                 THEN Append(dbMessages, [senderType |-> r.senderType,
                                          isInternal |-> r.isInternal, req |-> i])
                 ELSE dbMessages
          /\ dbTicket' = IF outcome = "ok"
                           THEN MessageCreateApply(dbTicket, r.updates)
                           ELSE dbTicket
          /\ published' =
               IF publishes /\ publisher = "ok"
                 THEN published \cup {[type |-> "support.ticket.replied",
                                       req |-> i, isInternal |-> r.isInternal]}
                 ELSE published
          /\ reqs' = [reqs EXCEPT ![i] =
                        Respond(Published(r, publishes, publisher),
                                IF outcome = "ok" THEN 201 ELSE 500)]
    /\ UNCHANGED <<domainVars, dbHistory>>

\* TicketHandler.GetByID: both reads and the response.
GetByIDAct ==
  /\ CanStart
  /\ dbTicket.stored
  /\ \E caller \in Callers, outcome \in Outcomes :
       LET r == NewRequest("GetByID", caller, "", FALSE)
       IN reqs' = Append(reqs,
            IF AccessDenied(dbTicket, caller.user, caller.role)
              THEN Respond(r, 403)
              ELSE Respond([r EXCEPT
                              !.first = outcome,
                              !.messages =
                                 TicketMessages(dbMessages,
                                   GetByTicketID(dbMessages, IncludeInternal(caller.role)),
                                   outcome)],
                           200))
  /\ UNCHANGED <<domainVars, dbTicket, dbHistory, dbMessages, published>>

StoreTick ==
  /\ now < MaxTime
  /\ now' = now + 1
  /\ UNCHANGED <<ticket, live, audit, request, storeVars>>

StoreNext ==
  \/ StoreTick
  \/ CreateTicketAct
  \/ CreateMessageAct
  \/ UpdateTicketAct
  \/ UpdateStatusAct
  \/ UpdateAct
  \/ RateTicketAct
  \/ AssignTicketAct
  \/ ReplyToTicketAct
  \/ AddMessageRequestAct
  \/ CommitMessageAct
  \/ GetByIDAct

StoreSpec == Init /\ [][StoreNext]_vars

\* The handlers that store messages, publish events and return messages.
NotifyNext ==
  \/ CreateTicketAct
  \/ CreateMessageAct
  \/ ReplyToTicketAct
  \/ AddMessageRequestAct
  \/ CommitMessageAct
  \/ GetByIDAct

NotifySpec == Init /\ [][NotifyNext]_vars

\* ------------------------------------------------------------ properties
\* The adjacency table of the status policy, as the specification states it.
AdjacencyTable ==
  {<<"open", "pending">>, <<"open", "in_progress">>, <<"open", "resolved">>,
   <<"pending", "open">>, <<"pending", "in_progress">>, <<"pending", "resolved">>,
   <<"in_progress", "pending">>, <<"in_progress", "resolved">>,
   <<"resolved", "closed">>, <<"resolved", "open">>}

\* The SLA durations (hours) and the escalation steps, as the specification
\* states them.
SLATable == [low |-> 48, normal |-> 24, high |-> 8, urgent |-> 4]
NextPriority == [low |-> "normal", normal |-> "high", high |-> "urgent"]

\* C1: the transition primitive moves the status from s to t exactly when
\* (s, t) is in the adjacency table and fails otherwise, and every change of
\* the status field made by any operation is an edge of that table.
C1_StatusFollowsTable ==
  /\ [](live =>
         \A target \in AllTicketStatuses, by \in Actors, notes \in Reasons :
           LET r == transitionStatus(ticket, target, by, notes, now)
           IN IF <<ticket.status, target>> \in AdjacencyTable
                THEN r.err = Nil /\ r.t.status = target
                ELSE r.err = ErrCannotModify /\ r.t.status = ticket.status)
  /\ [][(live /\ ticket'.status # ticket.status)
          => <<ticket.status, ticket'.status>> \in AdjacencyTable]_vars

\* C1 witness: the status has moved along two edges of the table.
C1_Witness ==
  /\ live
  /\ Len(ticket.statusHistory) >= 2
  /\ ticket.status = StatusClosed

\* The calls of the operations that can return an error, on ticket t at
\* clock reading n, with every argument of the *Args sets.
FallibleCalls(t, n) ==
  {SetPending(t, reason, by, n) : reason \in Reasons, by \in Actors}
  \cup {Resolve(t, reason, by, n) : reason \in Reasons, by \in Actors}
  \cup {Close(t, by, n) : by \in Actors}
  \cup {Reopen(t, reason, by, n) : reason \in Reasons, by \in Actors}
  \cup {Assign(t, a, by, n) : a \in AgentArgs, by \in Actors}
  \cup {Unassign(t, by, n) : by \in Actors}
  \cup {Escalate(t, reason, by, n) : reason \in Reasons, by \in Actors}
  \cup {RateSatisfaction(t, rating, c, n) : rating \in RatingArgs, c \in CommentInputs}

\* C2: an operation that returns an error leaves the whole ticket (every
\* field, the messages, the history and the event buffer) as it was.
C2_ErrorLeavesTicketUnchanged ==
  live => \A r \in FallibleCalls(ticket, now) : r.err # Nil => r.t = ticket

\* C2 witness: a closed, urgent, unassigned ticket touched before the clock
\* moved, on which Assign, Escalate, Unassign, Close and an out-of-range
\* rating all fail.
C2_Witness ==
  /\ live
  /\ ticket.status = StatusClosed
  /\ ticket.priority = PriorityUrgent
  /\ ticket.assignedTo = NoID
  /\ ticket.updatedAt < now
  /\ \A r \in {Assign(ticket, "a2", "a1", now), Escalate(ticket, "r", "a1", now),
               Unassign(ticket, "a1", now), Close(ticket, "a1", now),
               RateSatisfaction(ticket, 6, "ok", now)} : r.err # Nil

\* C3: closed is terminal: from a closed ticket no step changes the status
\* or the history, and Close, SetPending, Resolve and Reopen all fail.
C3_ClosedIsTerminal ==
  /\ [](live /\ ticket.status = StatusClosed =>
         \A reason \in Reasons, by \in Actors :
           /\ Close(ticket, by, now).err # Nil
           /\ SetPending(ticket, reason, by, now).err # Nil
           /\ Resolve(ticket, reason, by, now).err # Nil
           /\ Reopen(ticket, reason, by, now).err # Nil)
  /\ [][(live /\ ticket.status = StatusClosed)
          => /\ ticket'.status = StatusClosed
             /\ ticket'.statusHistory = ticket.statusHistory]_vars

\* C3 witness: a closed ticket on which a later operation has succeeded.
C3_Witness ==
  /\ live
  /\ ticket.status = StatusClosed
  /\ ticket.updatedAt > ticket.closedAt

\* The status history h is a chain from open to status s.
IsChain(h, s) ==
  /\ Len(h) = 0 => s = StatusOpen
  /\ Len(h) > 0 => h[1].fromStatus = StatusOpen /\ h[Len(h)].toStatus = s
  /\ \A i \in 1..(Len(h) - 1) : h[i].toStatus = h[i + 1].fromStatus

\* C4: a step that changes the status appends exactly one history entry
\* (from the old status to the new one), a step that does not leaves the
\* history alone, and so the history is always a chain from open to the
\* current status.
C4_HistoryIsFaithful ==
  /\ [](live => IsChain(ticket.statusHistory, ticket.status))
  /\ [][live =>
          IF ticket'.status # ticket.status
            THEN /\ Len(ticket'.statusHistory) = Len(ticket.statusHistory) + 1
                 /\ SubSeq(ticket'.statusHistory, 1, Len(ticket.statusHistory))
                      = ticket.statusHistory
                 /\ ticket'.statusHistory[Len(ticket'.statusHistory)].fromStatus
                      = ticket.status
                 /\ ticket'.statusHistory[Len(ticket'.statusHistory)].toStatus
                      = ticket'.status
            ELSE ticket'.statusHistory = ticket.statusHistory]_vars

\* C4 witness: a reopened ticket whose history holds three changes.
C4_Witness ==
  /\ live
  /\ Len(ticket.statusHistory) = 3
  /\ ticket.statusHistory[2].fromStatus = StatusResolved
  /\ ticket.statusHistory[2].toStatus = StatusOpen

\* C5: Unassign on a ticket with an assigned agent clears the assignment
\* and, when the status is in_progress, moves the ticket back to open with
\* one history entry in_progress -> open; Unassign with no assigned agent
\* fails with NotAssigned.
C5_UnassignReturnsToOpen ==
  live =>
    \A by \in Actors :
      LET r == Unassign(ticket, by, now)
      IN IF ticket.assignedTo = NoID
           THEN r.err = ErrNotAssigned
           ELSE /\ r.err = Nil
                /\ r.t.assignedTo = NoID
                /\ ticket.status = StatusInProgress =>
                     /\ r.t.status = StatusOpen
                     /\ Len(r.t.statusHistory) = Len(ticket.statusHistory) + 1
                     /\ r.t.statusHistory[Len(r.t.statusHistory)].fromStatus
                          = StatusInProgress
                     /\ r.t.statusHistory[Len(r.t.statusHistory)].toStatus
                          = StatusOpen

\* C6: Assign fails with CannotModify iff the ticket is closed; otherwise
\* it sets the assignee, and the status changes iff it was open, then to
\* in_progress with one new history entry open -> in_progress noted
\* "Assigned to agent"; on a pending, in_progress or resolved ticket status
\* and history stay as they were.
C6_Assign ==
  live =>
    \A a \in AgentArgs, by \in Actors :
      LET r == Assign(ticket, a, by, now)
      IN IF ticket.status = StatusClosed
           THEN r.err = ErrCannotModify
           ELSE /\ r.err = Nil
                /\ r.t.assignedTo = a
                /\ IF ticket.status = StatusOpen
                     THEN /\ r.t.status = StatusInProgress
                          /\ r.t.statusHistory =
                               Append(ticket.statusHistory,
                                      [fromStatus |-> StatusOpen,
                                       toStatus |-> StatusInProgress,
                                       changedBy |-> by,
                                       notes |-> "Assigned to agent"])
                     ELSE /\ r.t.status = ticket.status
                          /\ r.t.statusHistory = ticket.statusHistory

\* C6 witness: a resolved ticket that was assigned while open and now has
\* an assignee, so that a further Assign succeeds without a transition.
C6_Witness ==
  /\ live
  /\ ticket.status = StatusResolved
  /\ ticket.assignedTo # NoID
  /\ ticket.statusHistory[1].notes = "Assigned to agent"

\* C7: Escalate fails iff the ticket is closed or already urgent; a
\* successful Escalate raises the priority by exactly one step, sets the
\* deadline to the time of the call plus the SLA of the new priority, and
\* leaves status, history and assignee unchanged.
C7_Escalate ==
  live =>
    \A reason \in Reasons, by \in Actors :
      LET r == Escalate(ticket, reason, by, now)
      IN IF ticket.status = StatusClosed \/ ticket.priority = "urgent"
           THEN r.err # Nil
           ELSE /\ r.err = Nil
                /\ r.t.priority = NextPriority[ticket.priority]
                /\ r.t.slaDeadline = now + SLATable[r.t.priority]
                /\ r.t.status = ticket.status
                /\ r.t.statusHistory = ticket.statusHistory
                /\ r.t.assignedTo = ticket.assignedTo

\* C7 witness: an assigned ticket with history, escalated once after the
\* clock had moved on from its creation.
C7_Witness ==
  /\ live
  /\ audit.escalations = 1
  /\ audit.prioritySetAt > ticket.createdAt
  /\ ticket.assignedTo # NoID
  /\ Len(ticket.statusHistory) > 0

\* C8 as stated: from a non-closed ticket created low, Escalate succeeds
\* four times (the failure comes with the fifth call).
C8_FourEscalations ==
  (live /\ audit.createdPriority = "low" /\ ticket.status # StatusClosed
     /\ audit.escalations < 4)
    => \A reason \in Reasons, by \in Actors :
         Escalate(ticket, reason, by, now).err = Nil

\* C8 amended: from a non-closed ticket created low, Escalate succeeds
\* three times, the third reaching urgent, and the fourth call fails with
\* "already at highest priority".
C8_ThreeEscalations ==
  (live /\ audit.createdPriority = "low" /\ ticket.status # StatusClosed)
    => /\ audit.escalations <= 3
       /\ audit.escalations = 3 <=> ticket.priority = "urgent"
       /\ \A reason \in Reasons, by \in Actors :
            LET r == Escalate(ticket, reason, by, now)
            IN IF audit.escalations < 3
                 THEN r.err = Nil
                 ELSE r.err = ErrHighestPriority

\* C8 witness: a non-closed ticket created low and escalated three times.
C8_Witness ==
  /\ live
  /\ audit.createdPriority = "low"
  /\ audit.escalations = 3
  /\ ticket.status # StatusClosed

\* C9 as stated: every successful Escalate makes the deadline later than
\* it was before the call.
C9_DeadlineIncreases ==
  live =>
    \A reason \in Reasons, by \in Actors :
      LET r == Escalate(ticket, reason, by, now)
      IN r.err = Nil => r.t.slaDeadline > ticket.slaDeadline

\* C9 amended: every successful Escalate sets the deadline later than the
\* time of the call, and later than the deadline before the call whenever
\* the call is made at or after that deadline.
C9_DeadlineAfterCall ==
  live =>
    \A reason \in Reasons, by \in Actors :
      LET r == Escalate(ticket, reason, by, now)
      IN r.err = Nil =>
           /\ r.t.slaDeadline > now
           /\ now >= ticket.slaDeadline => r.t.slaDeadline > ticket.slaDeadline

\* C9 witness: a ticket escalated at or after the deadline it was created
\* with.
C9_Witness ==
  /\ live
  /\ audit.escalations = 1
  /\ audit.slaHours > 0
  /\ audit.prioritySetAt >= ticket.createdAt + audit.slaHours

\* The priority NewTicket gives for the priority string p.
CreatedPriority(p) == IF p \in DOMAIN SLATable THEN p ELSE "normal"

\* C10 as stated: the deadline of every ticket, the newly created one
\* included, is the time the priority was last set (creation or the last
\* successful Escalate) plus the SLA of the current priority.
C10_DeadlineMatchesPriority ==
  live => ticket.slaDeadline = audit.prioritySetAt + SLATable[ticket.priority]

\* C10 amended: a ticket created with SLAHours > 0 has the deadline
\* creation time + SLAHours hours until its first successful Escalate; in
\* every other case the deadline is the time the priority was last set plus
\* the SLA of the current priority.
C10_DeadlineMatchesPriorityOrOverride ==
  /\ live =>
       ticket.slaDeadline =
         IF audit.slaHours > 0 /\ audit.escalations = 0
           THEN ticket.createdAt + audit.slaHours
           ELSE audit.prioritySetAt + SLATable[ticket.priority]
  /\ ~live =>
       \A params \in TicketParams(SubjectInputs, CustomerInputs, EmailInputs,
                                   PriorityArgs, SLAHoursArgs, TagsInputs) :
         LET r == NewTicket(params, now)
             p == params.Priority
             h == params.SLAHours
         IN r.err = Nil =>
              /\ r.t.priority = CreatedPriority(p)
              /\ r.t.slaDeadline =
                   IF h > 0 THEN now + h ELSE now + SLATable[CreatedPriority(p)]

\* C10 witness: a ticket created with an SLAHours override and escalated
\* later, so that the deadline follows the new priority.
C10_Witness ==
  /\ live
  /\ audit.slaHours > 0
  /\ audit.escalations >= 1
  /\ audit.prioritySetAt > ticket.createdAt

\* The messages AddMessage can be given: every sender type, internal or not.
MessageArgs(n) ==
  {NewMessage(st, internal, n) : st \in AllSenderTypes, internal \in BOOLEAN}

\* C11: firstResponseAt is nil exactly while the ticket holds no agent
\* message; AddMessage with an agent message on such a ticket sets it to the
\* current time, which is at or after the creation and never in the future;
\* once set, no AddMessage (agent or not) and no step changes or clears it.
C11_FirstResponseOnce ==
  /\ [](live =>
         /\ (ticket.firstResponseAt = NoTime) <=>
              (\A i \in 1..Len(ticket.messages) : ~IsAgent(ticket.messages[i].senderType))
         /\ ticket.firstResponseAt # NoTime =>
              /\ ticket.createdAt <= ticket.firstResponseAt
              /\ ticket.firstResponseAt <= now
         /\ \A msg \in MessageArgs(now) :
              AddMessage(ticket, msg, now).t.firstResponseAt =
                IF ticket.firstResponseAt # NoTime THEN ticket.firstResponseAt
                ELSE IF msg.senderType = SenderAgent THEN now
                ELSE NoTime)
  /\ [][live =>
         /\ ticket.firstResponseAt # NoTime =>
              ticket'.firstResponseAt = ticket.firstResponseAt
         /\ ticket.firstResponseAt = NoTime /\ ticket'.firstResponseAt # NoTime =>
              /\ ticket'.firstResponseAt = now
              /\ Len(ticket'.messages) = Len(ticket.messages) + 1
              /\ IsAgent(ticket'.messages[Len(ticket'.messages)].senderType)]_vars

\* C11 witness: an agent answered the ticket and the ticket was changed again
\* at a later hour.
C11_Witness ==
  /\ live
  /\ ticket.firstResponseAt # NoTime
  /\ ticket.updatedAt > ticket.firstResponseAt
  /\ \E i \in 1..Len(ticket.messages) : IsAgent(ticket.messages[i].senderType)

\* C12: a successful Resolve stamps resolvedAt and a successful Close stamps
\* closedAt with the current time; Reopen succeeds exactly on a resolved
\* ticket and leaves it open with resolvedAt nil; closedAt, once set, is
\* changed by no step; and a set resolvedAt changes only by the step that
\* reopens the ticket, which clears it.
C12_ResolutionTimestamps ==
  /\ [](live =>
         \A reason \in Reasons, by \in Actors :
           LET rs == Resolve(ticket, reason, by, now)
               cl == Close(ticket, by, now)
               ro == Reopen(ticket, reason, by, now)
           IN /\ rs.err = Nil =>
                   /\ rs.t.resolvedAt = now
                   /\ rs.t.closedAt = ticket.closedAt
              /\ cl.err = Nil =>
                   /\ cl.t.closedAt = now
                   /\ cl.t.resolvedAt = ticket.resolvedAt
              /\ (ro.err = Nil) <=> (ticket.status = StatusResolved)
              /\ ro.err = Nil =>
                   /\ ro.t.status = StatusOpen
                   /\ ro.t.resolvedAt = NoTime
                   /\ ro.t.closedAt = ticket.closedAt)
  /\ [][live =>
         /\ ticket.closedAt # NoTime => ticket'.closedAt = ticket.closedAt
         /\ ticket.resolvedAt # NoTime /\ ticket'.resolvedAt # ticket.resolvedAt =>
              /\ ticket'.resolvedAt = NoTime
              /\ ticket.status = StatusResolved
              /\ ticket'.status = StatusOpen]_vars

\* C12 witness: a ticket that was resolved and then reopened.
C12_Witness ==
  /\ live
  /\ ticket.status = StatusOpen
  /\ ticket.resolvedAt = NoTime
  /\ Len(ticket.statusHistory) >= 2
  /\ ticket.statusHistory[Len(ticket.statusHistory)].fromStatus = StatusResolved

\* C13: RateSatisfaction succeeds exactly when the status is resolved or
\* closed and the rating is between 1 and 5; on success the stored rating
\* and comment are the arguments, otherwise they are unchanged; so the
\* stored rating is nil or within 1..5.
C13_RateSatisfaction ==
  live =>
    /\ \A rating \in RatingArgs, comment \in CommentArgs :
         LET r == RateSatisfaction(ticket, rating, comment, now)
         IN /\ (r.err = Nil) <=>
                 /\ ticket.status \in {StatusResolved, StatusClosed}
                 /\ 1 <= rating /\ rating <= 5
            /\ r.err = Nil =>
                 /\ r.t.satisfactionRating = rating
                 /\ r.t.satisfactionComment = comment
            /\ r.err # Nil =>
                 /\ r.t.satisfactionRating = ticket.satisfactionRating
                 /\ r.t.satisfactionComment = ticket.satisfactionComment
    /\ ticket.satisfactionRating = NoRating \/ ticket.satisfactionRating \in 1..5

\* C13 witness: a closed ticket that carries a rating and a comment, on
\* which a second rating would succeed and an out-of-range one would fail.
C13_Witness ==
  /\ live
  /\ ticket.status = StatusClosed
  /\ ticket.satisfactionRating = 3
  /\ ticket.satisfactionComment = "ok"
  /\ RateSatisfaction(ticket, 5, "fine", now).err = Nil
  /\ RateSatisfaction(ticket, 0, "fine", now).err = ErrRateRange

\* Every TicketParams value of the *Args sets.
TicketParamsArgs ==
  TicketParams(SubjectInputs, CustomerArgs, EmailInputs, PriorityArgs,
               SLAHoursArgs, TagsArgs)

\* What C14 says of a ticket NewTicket returned for params, but for its
\* priority.
FreshTicket(t, params) ==
  /\ t.status = StatusOpen
  /\ t.assignedTo = NoID
  /\ t.messages = <<>>
  /\ t.statusHistory = <<>>
  /\ t.firstResponseAt = NoTime
  /\ t.resolvedAt = NoTime
  /\ t.closedAt = NoTime
  /\ t.satisfactionRating = NoRating
  /\ Len(t.events) = 1
  /\ t.events[1] = NewEvent("ticket.created", <<params.Subject>>, t.createdAt)

\* C14 as stated, on the priority: a created ticket has the priority string
\* that was requested, normal when none was given.
C14_PriorityAsRequested ==
  live =>
    ticket.priority =
      IF request.Priority = "" THEN PriorityNormal ELSE request.Priority

\* C14 amended: NewTicket fails, producing no ticket, exactly when the
\* subject is empty or the customer ID and the guest email are both absent;
\* otherwise the ticket is open, unassigned, without messages, history,
\* first-response, resolution and closing times or rating, holds exactly
\* the Created event, and has the requested priority when that is one of
\* low, normal, high, urgent and normal for no or any other string.
C14_NewTicket ==
  /\ ~live =>
       \A params \in TicketParamsArgs :
         LET r == NewTicket(params, now)
         IN /\ (r.err # Nil) <=>
                 \/ params.Subject = ""
                 \/ params.CustomerID = NoID /\ params.GuestEmail = ""
            /\ r.err # Nil => r.t = ZeroTicket
            /\ r.err = Nil =>
                 /\ FreshTicket(r.t, params)
                 /\ r.t.priority = CreatedPriority(params.Priority)
  /\ live =>
       /\ request.Subject # ""
       /\ request.CustomerID # NoID \/ request.GuestEmail # ""
       /\ ticket.status = StatusOpen => FreshTicket(ticket, request)
       /\ ticket.priority = CreatedPriority(request.Priority)

\* C14 witness: a ticket created with a priority string that names no
\* priority.
C14_Witness ==
  /\ live
  /\ request.Priority = "bogus"
  /\ ticket.priority = PriorityNormal
  /\ ticket.status = StatusOpen

\* C15: every created ticket has exactly one owner identity, a customer ID
\* or a guest email, never both and never neither.
C15_ExactlyOneOwner ==
  live => (ticket.customerID # NoID) # (ticket.guestEmail # "")

\* The events a call that led from ticket t to ticket u added to the buffer.
Raised(t, u) == SubSeq(u.events, Len(t.events) + 1, Len(u.events))

\* The StatusChanged event of a call that changed the status of t, none
\* when the call left the status as it was.
StatusChanged(t, u) ==
  IF u.status = t.status THEN <<>>
  ELSE <<[type |-> "ticket.status_changed", data |-> <<u.status>>]>>

\* C16: Events() returns the buffer as it is, in order, and leaves it empty,
\* so a second call returns nothing; a call extends the buffer and never
\* rewrites it; a successful status change raises exactly one StatusChanged
\* carrying the new status; Assign raises Assigned after it, Resolve raises
\* Resolved and Close raises Closed after it, Escalate raises Escalated; a
\* failing call raises nothing.
C16_EventsDrainedInOrder ==
  /\ [](live =>
         /\ Events(ticket).events = ticket.events
         /\ Events(ticket).t = [ticket EXCEPT !.events = <<>>]
         /\ Events(Events(ticket).t).events = <<>>
         /\ \A r \in FallibleCalls(ticket, now) :
              /\ SubSeq(r.t.events, 1, Len(ticket.events)) = ticket.events
              /\ r.err # Nil => Raised(ticket, r.t) = <<>>
         /\ \A reason \in Reasons, by \in Actors, a \in AgentArgs :
              LET sp == SetPending(ticket, reason, by, now)
                  rs == Resolve(ticket, reason, by, now)
                  cl == Close(ticket, by, now)
                  ro == Reopen(ticket, reason, by, now)
                  as == Assign(ticket, a, by, now)
                  un == Unassign(ticket, by, now)
                  es == Escalate(ticket, reason, by, now)
              IN /\ sp.err = Nil =>
                      /\ sp.t.status # ticket.status
                      /\ Raised(ticket, sp.t) = StatusChanged(ticket, sp.t)
                 /\ ro.err = Nil =>
                      /\ ro.t.status # ticket.status
                      /\ Raised(ticket, ro.t) = StatusChanged(ticket, ro.t)
                 /\ rs.err = Nil =>
                      /\ rs.t.status # ticket.status
                      /\ Raised(ticket, rs.t) =
                           StatusChanged(ticket, rs.t)
                             \o <<[type |-> "ticket.resolved", data |-> <<reason>>]>>
                 /\ cl.err = Nil =>
                      /\ cl.t.status # ticket.status
                      /\ Raised(ticket, cl.t) =
                           StatusChanged(ticket, cl.t)
                             \o <<[type |-> "ticket.closed", data |-> <<>>]>>
                 /\ as.err = Nil =>
                      Raised(ticket, as.t) =
                        StatusChanged(ticket, as.t)
                          \o <<[type |-> "ticket.assigned", data |-> <<a>>]>>
                 /\ un.err = Nil =>
                      Raised(ticket, un.t) = StatusChanged(ticket, un.t)
                 /\ es.err = Nil =>
                      /\ es.t.status = ticket.status
                      /\ Raised(ticket, es.t) =
                           <<[type |-> "ticket.escalated",
                              data |-> <<es.t.priority, reason>>]>>)
  /\ [][live =>
         \/ /\ Len(ticket'.events) >= Len(ticket.events)
            /\ SubSeq(ticket'.events, 1, Len(ticket.events)) = ticket.events
            /\ Raised(ticket, ticket') # <<>> =>
                 \/ ticket'.status = ticket.status
                 \/ Raised(ticket, ticket')[1] = StatusChanged(ticket, ticket')[1]
         \/ /\ ticket'.events = <<>>
            /\ ticket' = [ticket EXCEPT !.events = <<>>]]_vars

\* C16 witness: the Created event was drained, then the ticket was resolved:
\* the buffer holds StatusChanged(resolved) followed by Resolved.
C16_Witness ==
  /\ live
  /\ Len(ticket.events) = 2
  /\ ticket.events[1] = [type |-> "ticket.status_changed", data |-> <<StatusResolved>>]
  /\ ticket.events[2].type = "ticket.resolved"
  /\ Events(ticket).events = ticket.events

C18_StatusPolicy ==
  /\ \A s \in AllTicketStatuses, t \in AllTicketStatuses :
       /\ CanTransitionTo(s, t) <=> <<s, t>> \in AdjacencyTable
       /\ (\E i \in 1..Len(ValidTransitions(s)) : ValidTransitions(s)[i] = t)
            <=> <<s, t>> \in AdjacencyTable
       /\ TransitionTo(s, t) =
            IF <<s, t>> \in AdjacencyTable
              THEN [status |-> t, ok |-> TRUE]
              ELSE [status |-> s, ok |-> FALSE]
  /\ \A s \in AllTicketStatuses :
       /\ ~CanTransitionTo(s, s)
       /\ \A i \in 1..Len(ValidTransitions(s)) :
            ValidTransitions(s)[i] \in AllTicketStatuses
       /\ IsTerminal(s) <=> s = StatusClosed
  /\ live =>
       /\ ticket.status \in AllTicketStatuses
       /\ \A t \in AllTicketStatuses :
            (transitionStatus(ticket, t, "a1", "r", now).err = Nil)
              <=> TransitionTo(ticket.status, t).ok

\* C18 witness: a closed ticket, whose status is terminal and from which
\* TransitionTo returns closed with an error, reached from a resolved one.
C18_Witness ==
  /\ live
  /\ ticket.status = StatusClosed
  /\ IsTerminal(ticket.status)
  /\ ValidTransitions(ticket.status) = <<>>
  /\ TransitionTo(ticket.status, StatusOpen) = [status |-> StatusClosed, ok |-> FALSE]
  /\ TransitionTo(StatusResolved, ticket.status) = [status |-> StatusClosed, ok |-> TRUE]

\* Sequence q is sequence p followed by at most k more entries.
Extends(p, q, k) ==
  /\ Len(p) <= Len(q)
  /\ Len(q) <= Len(p) + k
  /\ SubSeq(q, 1, Len(p)) = p

\* C19: the messages and the status history only grow at the end: every
\* call and every step leaves the entries already there where and as they
\* were; AddMessage appends exactly its message and leaves the history; no
\* other call touches the messages; a call adds at most one history entry.
\* MarkAsRead changes nothing of a message but readAt, which it sets to the
\* current time when nil and leaves alone otherwise.
C19_AppendOnly ==
  /\ [](live =>
         /\ \A msg \in MessageArgs(now) :
              LET r == AddMessage(ticket, msg, now)
              IN /\ r.t.messages = Append(ticket.messages, msg)
                 /\ r.t.statusHistory = ticket.statusHistory
         /\ \A r \in FallibleCalls(ticket, now) :
              /\ r.t.messages = ticket.messages
              /\ Extends(ticket.statusHistory, r.t.statusHistory, 1)
         /\ \A u \in {Events(ticket).t}
                       \cup {AddTag(ticket, tag, now) : tag \in TagNames}
                       \cup {RemoveTag(ticket, tag, now) : tag \in TagNames} :
              /\ u.messages = ticket.messages
              /\ u.statusHistory = ticket.statusHistory
         /\ \A m \in MessageArgs(now) \cup {ticket.messages[i] : i \in 1..Len(ticket.messages)} :
              LET m1 == MarkAsRead(m, now)
              IN /\ m.readAt = NoTime
                 /\ m1 = [m EXCEPT !.readAt = now]
                 /\ MarkAsRead(m1, now + 1) = m1)
  /\ [][live =>
         /\ Extends(ticket.messages, ticket'.messages, 1)
         /\ Extends(ticket.statusHistory, ticket'.statusHistory, 1)]_vars

\* C19 witness: a ticket with a message and a history entry that was changed
\* after the message arrived; its message, read now, stays read as of now.
C19_Witness ==
  /\ live
  /\ Len(ticket.messages) >= 1
  /\ Len(ticket.statusHistory) >= 1
  /\ ticket.updatedAt = now
  /\ now > ticket.createdAt
  /\ MarkAsRead(MarkAsRead(ticket.messages[1], now), now + 1).readAt = now

\* C20: the tag collection is a set: from creation on, and after any
\* sequence of AddTag and RemoveTag, no tag occurs in it twice.
C20_TagsAreSet ==
  live =>
    \A i \in 1..Len(ticket.tags), j \in 1..Len(ticket.tags) :
      i # j => ticket.tags[i] # ticket.tags[j]

\* C21: the stored history rows of a stored ticket form a chain of edges of
\* the adjacency table from open to the stored status.
C21_StoredHistoryIsLegalChain ==
  dbTicket.stored =>
    /\ IsChain(dbHistory, dbTicket.status)
    /\ \A i \in 1..Len(dbHistory) :
         <<dbHistory[i].fromStatus, dbHistory[i].toStatus>> \in AdjacencyTable

\* The requests that stored an agent message.
AgentReplies ==
  {i \in 1..Len(reqs) :
     /\ reqs[i].op \in {"ReplyToTicket", "AddMessage"}
     /\ reqs[i].senderType = SenderAgent
     /\ reqs[i].pc = "done"
     /\ reqs[i].first = "ok"}

\* C22: once every request has completed, a ticket for which an agent reply
\* was stored has its first_response_at set and is no longer open because
\* of a write that never asked for open.
C22_ReplyUpdatesSurvive ==
  (/\ \A i \in 1..Len(reqs) : reqs[i].pc = "done"
   /\ AgentReplies # {})
    => /\ dbTicket.firstResponseAt # NoTime
       /\ dbTicket.status = StatusOpen =>
            \E i \in 1..Len(reqs) : reqs[i].status = StatusOpen

\* C23: a Create or SubmitContactForm request that reported success stored
\* its initial message.
C23_InitialMessageStored ==
  \A i \in 1..Len(reqs) :
    (reqs[i].op \in {"Create", "SubmitContactForm"} /\ reqs[i].code = 201)
      => \E k \in 1..Len(dbMessages) : dbMessages[k].req = i

\* The response the handler of request r gives for the outcome of its
\* repository write alone.
ResponseFor(r) ==
  IF r.op \in {"Create", "SubmitContactForm"}
    THEN IF r.first = "ok" THEN 201 ELSE 500
  ELSE IF r.senderType = "" THEN 403
  ELSE IF r.first = "ok" THEN 201 ELSE 500

\* C24: in Create, SubmitContactForm, AddMessage and ReplyToTicket the
\* publisher is called at most once per request and only when the
\* repository write of the request succeeded; the response is the one the
\* write outcome alone determines, whether the publisher was absent,
\* delivered or failed; and every event the broker got belongs to a request
\* whose write succeeded.
C24_PublishAfterPersist ==
  /\ \A i \in 1..Len(reqs) :
       LET r == reqs[i] IN
       r.op \in {"Create", "SubmitContactForm", "AddMessage", "ReplyToTicket"} =>
         /\ r.pubs <= 1
         /\ r.pubs = 1 => r.first = "ok" /\ r.pc = "done"
         /\ r.pubs = 0 <=> r.publish = "none"
         /\ r.pc = "done" => r.code = ResponseFor(r)
  /\ \A e \in published :
       /\ reqs[e.req].first = "ok"
       /\ reqs[e.req].publish = "ok"
  /\ \A op \in {"AddMessage", "ReplyToTicket"}, publisher \in PublishInputs,
        isInternal \in BOOLEAN :
       ~ReplyPublishes(op, "err", publisher, isInternal)

\* C24 witness: one reply was stored and answered 201 although its publish
\* failed, and another reply failed to store, answered 500 and published
\* nothing.
C24_Witness ==
  \E i \in 1..Len(reqs), j \in 1..Len(reqs) :
    /\ reqs[i].op = "ReplyToTicket"
    /\ reqs[i].first = "ok"
    /\ reqs[i].publish = "err"
    /\ reqs[i].code = 201
    /\ reqs[j].op = "AddMessage"
    /\ reqs[j].first = "err"
    /\ reqs[j].pubs = 0
    /\ reqs[j].code = 500

\* Values of the role key of the request context.
RoleArgs == {"", "customer", "guest", "admin", "super_admin", "support"}

\* C25: GetByID returns an internal message only to a caller whose role is
\* admin, super_admin or support: the list it builds for any other role has
\* no internal message whatever is stored; and no reply event is published
\* for a message stored as internal.
C25_InternalNotesStayInternal ==
  /\ \A i \in 1..Len(reqs) :
       LET r == reqs[i] IN
       /\ (r.op = "GetByID" /\ \E k \in 1..Len(r.messages) : r.messages[k].isInternal)
            => r.role \in {"admin", "super_admin", "support"}
       /\ (r.op = "ReplyToTicket" /\ r.isInternal) => r.pubs = 0
  /\ \A role \in RoleArgs :
       LET shown == GetByTicketID(dbMessages, IncludeInternal(role)) IN
       /\ IncludeInternal(role) <=> role \in {"admin", "super_admin", "support"}
       /\ role \notin {"admin", "super_admin", "support"} =>
            \A k \in 1..Len(shown) : ~shown[k].isInternal
  /\ \A e \in published : ~e.isInternal
  /\ \A k \in 1..Len(dbMessages) :
       dbMessages[k].isInternal =>
         \A e \in published : e.req # dbMessages[k].req

\* C25 witness: an internal note is stored, nothing was published for it,
\* and the ticket's owner got the ticket with its messages but the note.
C25_Witness ==
  \E i \in 1..Len(reqs), j \in 1..Len(reqs) :
    /\ reqs[i].op = "ReplyToTicket"
    /\ reqs[i].isInternal
    /\ reqs[i].code = 201
    /\ \E k \in 1..Len(dbMessages) : dbMessages[k].isInternal
    /\ reqs[j].op = "GetByID"
    /\ reqs[j].role = "customer"
    /\ reqs[j].code = 200
    /\ Len(reqs[j].messages) >= 1
    /\ reqs[j].messages = GetByTicketID(dbMessages, FALSE)
    /\ Len(reqs[j].messages) < Len(dbMessages)

\* C26: when AdminHandler.UpdateTicket answers 200 for a request whose
\* UpdateStatus to resolved (closed) succeeded, the stored ticket has
\* resolved_at (closed_at) set after the handler's whole-row Update.
C26_TimestampSurvivesUpdate ==
  [][\A i \in 1..Len(reqs) :
       (/\ reqs[i].op = "UpdateTicket"
        /\ reqs[i].pc = "update"
        /\ reqs[i].first = "ok"
        /\ reqs'[i].code = 200)
         => /\ reqs[i].status = StatusResolved => dbTicket'.resolvedAt # NoTime
            /\ reqs[i].status = StatusClosed => dbTicket'.closedAt # NoTime]_vars

\* C27: a message transaction that commits on a ticket whose stored
\* first_response_at is already set leaves that value as it is.
C27_FirstResponseWrittenOnce ==
  [][\A i \in 1..Len(reqs) :
       (/\ reqs[i].pc = "commit"
        /\ reqs'[i].pc = "done"
        /\ dbTicket.firstResponseAt # NoTime)
         => dbTicket'.firstResponseAt = dbTicket.firstResponseAt]_vars

\* C28: at every reachable state of the aggregate resolvedAt is set exactly
\* when the status is resolved or closed, and closedAt is set exactly when
\* the status is closed.
C28_TimestampsAgreeWithStatus ==
  live =>
    /\ (ticket.resolvedAt # NoTime) <=>
         (ticket.status \in {StatusResolved, StatusClosed})
    /\ (ticket.closedAt # NoTime) <=> (ticket.status = StatusClosed)

\* C28 witness: a ticket resolved in one hour and closed in the next.
C28_Witness ==
  /\ live
  /\ ticket.status = StatusClosed
  /\ ticket.resolvedAt # NoTime
  /\ ticket.closedAt # NoTime
  /\ ticket.resolvedAt < ticket.closedAt

\* The statuses the public operations other than Assign and Resolve leave.
OtherOutcomes(t, n) ==
  {Unassign(t, by, n).t.status : by \in Actors}
    \cup {Escalate(t, reason, by, n).t.status : reason \in Reasons, by \in Actors}
    \cup {SetPending(t, reason, by, n).t.status : reason \in Reasons, by \in Actors}
    \cup {Close(t, by, n).t.status : by \in Actors}
    \cup {Reopen(t, reason, by, n).t.status : reason \in Reasons, by \in Actors}
    \cup {AddMessage(t, msg, n).t.status : msg \in MessageArgs(n)}
    \cup {RateSatisfaction(t, rating, comment, n).t.status :
            rating \in RatingInputs, comment \in CommentInputs}

\* What one call of each public operation does to the status.
C29_Operations ==
  (live /\ ticket.status # StatusInProgress) =>
    /\ \A status \in OtherOutcomes(ticket, now) :
         /\ status # StatusInProgress
         /\ ticket.status = StatusPending => status = StatusPending
    /\ \A resolution \in Reasons, by \in Actors :
         LET r == Resolve(ticket, resolution, by, now)
         IN /\ r.t.status # StatusInProgress
            /\ ticket.status = StatusPending =>
                 r.err = Nil /\ r.t.status = StatusResolved
    /\ \A a \in AgentArgs, by \in Actors :
         LET r == Assign(ticket, a, by, now)
         IN /\ (r.t.status = StatusInProgress) <=> (ticket.status = StatusOpen)
            /\ ticket.status = StatusPending => r.t.status = StatusPending

\* C29: on a pending ticket Assign, Unassign, Escalate, AddMessage,
\* SetPending, Close and Reopen leave the status pending and Resolve makes it
\* resolved; on a ticket that is not in progress only Assign, and only on an
\* open ticket, makes it in progress.  So a step that takes a ticket out of
\* pending leaves it resolved, and a step that makes a ticket in progress
\* starts from open and leaves it assigned.
C29_PendingLeavesOnlyByResolve ==
  /\ []C29_Operations
  /\ [][live =>
         /\ (ticket.status = StatusPending /\ ticket'.status # StatusPending) =>
              /\ ticket'.status = StatusResolved
              /\ ticket'.resolvedAt = now
         /\ (ticket.status # StatusInProgress /\ ticket'.status = StatusInProgress) =>
              /\ ticket.status = StatusOpen
              /\ ticket'.assignedTo # NoID]_vars

\* C29 witness: a pending ticket that has an assignee, so that Unassign
\* succeeds on it.
C29_Witness ==
  /\ live
  /\ ticket.status = StatusPending
  /\ ticket.assignedTo # NoID
  /\ \E by \in Actors : Unassign(ticket, by, now).err = Nil

\* What one call of AddMessage with msg does to the ticket.
C30_Frame(msg) ==
  LET r == AddMessage(ticket, msg, now)
  IN /\ r.err = Nil
     /\ r.t.messages = Append(ticket.messages, msg)
     /\ r.t.updatedAt = now
     /\ r.t.firstResponseAt # ticket.firstResponseAt =>
          /\ ticket.firstResponseAt = NoTime
          /\ msg.senderType = SenderAgent
          /\ r.t.firstResponseAt = now
     /\ (ticket.firstResponseAt = NoTime /\ msg.senderType = SenderAgent) =>
          r.t.firstResponseAt = now
     /\ r.t = [ticket EXCEPT !.messages = r.t.messages,
                             !.updatedAt = r.t.updatedAt,
                             !.firstResponseAt = r.t.firstResponseAt]

\* C30: AddMessage succeeds on every ticket, closed ones included; it appends
\* the message, sets updatedAt, sets firstResponseAt when the ticket had none
\* and the sender is an agent (internal note or not), and leaves every other
\* field (status, status history, priority, deadline, assignee, resolvedAt,
\* closedAt, rating, events) as it was.
C30_AddMessageFrame ==
  /\ [](live => \A msg \in MessageArgs(now) : C30_Frame(msg))
  /\ [][(live /\ Len(ticket'.messages) # Len(ticket.messages)) =>
          /\ Len(ticket'.messages) = Len(ticket.messages) + 1
          /\ ticket' = [ticket EXCEPT !.messages = ticket'.messages,
                                      !.updatedAt = now,
                                      !.firstResponseAt = ticket'.firstResponseAt]]_vars

\* C30 witness: a closed ticket whose first agent message was added after it
\* was closed.
C30_Witness ==
  /\ live
  /\ ticket.status = StatusClosed
  /\ Len(ticket.messages) >= 1
  /\ IsAgent(ticket.messages[Len(ticket.messages)].senderType)
  /\ ticket.firstResponseAt # NoTime
  /\ ticket.closedAt < ticket.firstResponseAt
====
